---- MODULE Spec2Model ----
(***************************************************************************)
(* go-ddd-example: the User feature (create, get by id) and its layered    *)
(* error chain Model -> Repository -> Service -> UseCase -> Handler, which *)
(* the central echo error handler turns into an HTTP status and JSON body. *)
(*                                                                         *)
(* Go values are modelled as records.  An error is a record with a "kind"  *)
(* field (its dynamic type); the nil error is Nil.  A UUID is a number in  *)
(* 0..MaxId, 0 being uuid.Nil.  A time.Time is a number, 0 the zero time.  *)
(***************************************************************************)
EXTENDS Integers, Sequences, FiniteSets, TLC

----------------------------------------------------------------------------
(* Bounds of the model *)

\* number of distinct non-nil UUID values
MaxId == 2
\* number of requests that can be in flight at the same time
NReq == 1
\* largest reading of the wall clock
MaxClock == 1
\* a context value outside every declared enum (the context types are ints)
OutOfEnum == 7

Ids == 1..MaxId
NilUUID == 0
ZeroTime == 0
Reqs == 1..NReq
NameSamples == {"", "Alice", "Bob"}

----------------------------------------------------------------------------
(* Context enums (iota) *)

ServiceErrorContextUnexpected == 0
ServiceErrorContextRepository == 1
ServiceErrorContextValidation == 2

UseCaseErrorContextUnexpected == 0
UseCaseErrorContextParseError == 1
UseCaseErrorContextNotFound == 2
UseCaseErrorContextConflict == 3
UsecaseErrorContextDatabase == 4
UseCaseErrorContextInvalidInput == 5

HandlerErrorContextParseError == 0
HandlerErrorContextUseCase == 1
HandlerErrorContextInternalService == 2

(* net/http status codes used by the program *)
StatusOK == 200
StatusCreated == 201
StatusBadRequest == 400
StatusNotFound == 404
StatusConflict == 409
StatusUnprocessableEntity == 422
StatusInternalServerError == 500

\* http.StatusText
StatusText(code) ==
  CASE code = StatusOK -> "OK"
    [] code = StatusCreated -> "Created"
    [] code = StatusBadRequest -> "Bad Request"
    [] code = StatusNotFound -> "Not Found"
    [] code = StatusConflict -> "Conflict"
    [] code = StatusUnprocessableEntity -> "Unprocessable Entity"
    [] code = StatusInternalServerError -> "Internal Server Error"
    [] OTHER -> ""

----------------------------------------------------------------------------
(* Errors *)

Nil == [kind |-> "nil"]

\* an error of a type defined outside the program (driver, echo, uuid, ...):
\* it has no Context(), no Inner() and no Unwrap()
ForeignError(text) == [kind |-> "foreign", text |-> text]

ErrNoRows == ForeignError("sql: no rows in result set")
ErrConnection == ForeignError("dial tcp: connection refused")
ErrBind == ForeignError("code=400, message=Syntax error")
ErrInvalidUUID == ForeignError("invalid UUID length")
ErrRouteNotFound == ForeignError("code=404, message=Not Found")

\* fmt.Errorf with a %w verb: the only error here that has Unwrap()
FmtWrapError(text, inner) == [kind |-> "fmt.wrapError", text |-> text, inner |-> inner]

NewModelErrorWithMessage(inner, msg) ==
  [kind |-> "ModelError", inner |-> inner, msg |-> msg]

NewRepositoryError(inner) ==
  [kind |-> "RepositoryError", inner |-> inner, msg |-> ""]

NewServiceError(context, inner) ==
  [kind |-> "ServiceError", context |-> context, inner |-> inner, msg |-> ""]

NewUseCaseError(context, inner) ==
  [kind |-> "UseCaseError", context |-> context, inner |-> inner, msg |-> ""]

NewHandlerError(context, inner) ==
  [kind |-> "HandlerError", context |-> context, inner |-> inner, message |-> ""]

NewHandlerErrorWithMessage(context, inner, msg) ==
  [kind |-> "HandlerError", context |-> context, inner |-> inner, message |-> msg]

\* errors.As(err, &target) for a target of interface type T: the first error
\* of the Unwrap chain whose dynamic type implements T, Nil when there is none.
\* Each of the program's error interfaces is implemented by one type only.
RECURSIVE ErrorsAs(_, _)
ErrorsAs(err, kind) ==
  IF err.kind = kind THEN err
  ELSE IF err.kind = "fmt.wrapError" THEN ErrorsAs(err.inner, kind)
  ELSE Nil

\* the Error() methods; fmt prints a nil operand of %w as %!w(<nil>)
RECURSIVE ErrorString(_)
ErrorString(e) ==
  LET Wrapped(prefix, msg) ==
        IF msg # "" THEN prefix \o ": " \o msg \o ": " \o ErrorString(e.inner)
        ELSE prefix \o ": " \o ErrorString(e.inner)
  IN CASE e.kind = "nil" -> "%!w(<nil>)"
       [] e.kind = "foreign" -> e.text
       [] e.kind = "fmt.wrapError" -> e.text \o ": " \o ErrorString(e.inner)
       [] e.kind = "ModelError" -> Wrapped("ModelError", e.msg)
       [] e.kind = "RepositoryError" -> Wrapped("RepositoryError", e.msg)
       [] e.kind = "ServiceError" -> Wrapped("ServiceError", e.msg)
       [] e.kind = "UseCaseError" -> Wrapped("UseCaseError", e.msg)
       [] e.kind = "HandlerError" -> Wrapped("HandlerError", e.message)

\* uuid.UUID.String (one digit stands for the 36 characters)
KeyText(key) == <<"0", "1", "2", "3", "4", "5", "6", "7", "8", "9">>[key + 1]

\* the key argument of NotFoundError, an interface{}: a uuid.UUID, or a value
\* of a named string type
UuidKey(id) == [type |-> "UUID", kind |-> "array", id |-> id]
StringKey(type, s) == [type |-> type, kind |-> "string", s |-> s]

\* reflect.TypeOf(key).Name()
TypeName(key) == key.type

\* reflect.ValueOf(key) under the verb %q: the string itself, or the text of
\* the key's String method, in double quotes
Quoted(key) ==
  "\"" \o (IF key.kind = "string" THEN key.s ELSE KeyText(key.id)) \o "\""

\* customerror.NotFoundError
NotFoundError(resource, key, inner) ==
  LET text == resource \o " not found " \o TypeName(key) \o "(" \o Quoted(key) \o ")"
  IN IF inner = Nil THEN ForeignError(text) ELSE FmtWrapError(text, inner)

\* mutant: the Validation case is missing and falls to the default
ConvertServiceToUseCaseError_NoValidation(err) ==
  IF err = Nil THEN Nil
  ELSE LET serviceError == ErrorsAs(err, "ServiceError") IN
    IF serviceError = Nil THEN Nil
    ELSE CASE serviceError.context = ServiceErrorContextRepository ->
                NewUseCaseError(UsecaseErrorContextDatabase, serviceError)
           [] OTHER -> NewUseCaseError(UseCaseErrorContextUnexpected, serviceError)

\* mutant: a context outside the declared ones gives no result
ConvertServiceToUseCaseError_EnumOnly(err) ==
  IF err = Nil THEN Nil
  ELSE LET serviceError == ErrorsAs(err, "ServiceError") IN
    IF serviceError = Nil THEN Nil
    ELSE CASE serviceError.context = ServiceErrorContextValidation ->
                NewUseCaseError(UseCaseErrorContextInvalidInput, serviceError)
           [] serviceError.context = ServiceErrorContextRepository ->
                NewUseCaseError(UsecaseErrorContextDatabase, serviceError)
           [] serviceError.context = ServiceErrorContextUnexpected ->
                NewUseCaseError(UseCaseErrorContextUnexpected, serviceError)
           [] OTHER -> Nil

ConvertServiceToUseCaseError(err) ==
  IF err = Nil THEN Nil
  ELSE LET serviceError == ErrorsAs(err, "ServiceError") IN
    IF serviceError = Nil THEN Nil
    ELSE CASE serviceError.context = ServiceErrorContextValidation ->
                NewUseCaseError(UseCaseErrorContextInvalidInput, serviceError)
           [] serviceError.context = ServiceErrorContextRepository ->
                NewUseCaseError(UsecaseErrorContextDatabase, serviceError)
           [] OTHER -> NewUseCaseError(UseCaseErrorContextUnexpected, serviceError)

\* mutant: NotFound is translated to ParseError as well
ConvertUseCaseErrorToHandlerError_NotFoundParse(err) ==
  IF err = Nil THEN Nil
  ELSE LET useCaseError == ErrorsAs(err, "UseCaseError") IN
    IF useCaseError = Nil THEN Nil
    ELSE CASE useCaseError.context \in {UseCaseErrorContextInvalidInput,
                                        UseCaseErrorContextNotFound} ->
                NewHandlerError(HandlerErrorContextParseError, useCaseError)
           [] OTHER -> NewHandlerError(HandlerErrorContextUseCase, useCaseError)

\* mutant: InvalidInput is not translated to ParseError
ConvertUseCaseErrorToHandlerError_AllUseCase(err) ==
  IF err = Nil THEN Nil
  ELSE LET useCaseError == ErrorsAs(err, "UseCaseError") IN
    IF useCaseError = Nil THEN Nil
    ELSE NewHandlerError(HandlerErrorContextUseCase, useCaseError)

ConvertUseCaseErrorToHandlerError(err) ==
  IF err = Nil THEN Nil
  ELSE LET useCaseError == ErrorsAs(err, "UseCaseError") IN
    IF useCaseError = Nil THEN Nil
    ELSE CASE useCaseError.context = UseCaseErrorContextInvalidInput ->
                NewHandlerError(HandlerErrorContextParseError, useCaseError)
           [] OTHER -> NewHandlerError(HandlerErrorContextUseCase, useCaseError)

----------------------------------------------------------------------------
(* The HTTP response and the central error handler *)

\* echo.Response before anything is written
NoResponse == [Committed |-> FALSE, Status |-> 0, Body |-> [kind |-> "none"], Writes |-> 0]

\* ctx.JSON(code, body): writes the status line and the encoded body
JSON(resp, code, body) ==
  [Committed |-> TRUE, Status |-> code, Body |-> body, Writes |-> resp.Writes + 1]

\* mutant: the body always says 500
NewErrorResponse_Fixed(statusCode, message, details) ==
  [statusCode |-> StatusInternalServerError, message |-> message, details |-> details]

NewErrorResponse(statusCode, message, details) ==
  [statusCode |-> statusCode, message |-> message, details |-> details]

\* mutant: the Conflict case is missing and falls to the default
errorContextToStatusCode_NoConflict(ctx) ==
  CASE ctx = UseCaseErrorContextParseError -> StatusBadRequest
    [] ctx = UseCaseErrorContextNotFound -> StatusNotFound
    [] ctx = UseCaseErrorContextInvalidInput -> StatusUnprocessableEntity
    [] OTHER -> StatusInternalServerError

errorContextToStatusCode(ctx) ==
  CASE ctx = UseCaseErrorContextParseError -> StatusBadRequest
    [] ctx = UseCaseErrorContextNotFound -> StatusNotFound
    [] ctx = UseCaseErrorContextConflict -> StatusConflict
    [] ctx = UseCaseErrorContextInvalidInput -> StatusUnprocessableEntity
    [] ctx \in {UseCaseErrorContextUnexpected, UsecaseErrorContextDatabase} ->
         StatusInternalServerError
    [] OTHER -> StatusInternalServerError

\* mutant: a body is written whether or not the response is committed
CustomHTTPErrorHandler_NoCommitCheck(err, resp) ==
  IF err = Nil THEN [resp |-> resp, logged |-> Nil]
  ELSE [resp |-> JSON(resp, StatusInternalServerError,
                      NewErrorResponse(StatusInternalServerError,
                                       StatusText(StatusInternalServerError), "")),
        logged |-> err]

\* returns the response and what was logged
CustomHTTPErrorHandler(err, resp) ==
  IF err = Nil THEN [resp |-> resp, logged |-> Nil]
  ELSE IF resp.Committed THEN [resp |-> resp, logged |-> err]
  ELSE LET handlerError == ErrorsAs(err, "HandlerError") IN
    IF handlerError = Nil THEN [resp |-> resp, logged |-> err]
    ELSE IF handlerError.context = HandlerErrorContextParseError
    THEN [resp |-> JSON(resp, StatusBadRequest,
                        NewErrorResponse(StatusBadRequest, StatusText(StatusBadRequest),
                                         handlerError.message)),
          logged |-> err]
    ELSE LET useCaseError == ErrorsAs(handlerError.inner, "UseCaseError") IN
      IF useCaseError = Nil THEN [resp |-> resp, logged |-> err]
      ELSE LET statusCode == errorContextToStatusCode(useCaseError.context) IN
        [resp |-> JSON(resp, statusCode,
                       NewErrorResponse(statusCode, StatusText(statusCode),
                                        ErrorString(useCaseError))),
         logged |-> err]

----------------------------------------------------------------------------
(* Value objects and the write model *)

\* valueobject.NewValueObject(v); a nil ValueObject interface is NoValueObject
NewValueObject(v) == [value |-> v]
NoValueObject == [kind |-> "nil"]
Value(vo) == vo.value

\* valueObject[string].String(): fmt.Sprintf("%v", v.value)
String(vo) == vo.value

\* mutant: names longer than 32 characters are rejected
ParseUserName_Capped(name) ==
  IF name = "" \/ Len(name) > 32
  THEN [name |-> NewValueObject(""),
        err |-> NewModelErrorWithMessage(Nil, "Name is required")]
  ELSE [name |-> NewValueObject(name), err |-> Nil]

\* mutant: the empty name is not rejected
ParseUserName_NoCheck(name) == [name |-> NewValueObject(name), err |-> Nil]

ParseUserName(name) ==
  IF name = ""
  THEN [name |-> NewValueObject(""),
        err |-> NewModelErrorWithMessage(Nil, "Name is required")]
  ELSE [name |-> NewValueObject(name), err |-> Nil]

\* uuid.New() is passed in as id: see NewUserIDs for the values it can take
NewUserID(id) == NewValueObject(id)

\* UserCommand{}
ZeroUserCommand ==
  [ID |-> NoValueObject, Name |-> NoValueObject, CreateAt |-> ZeroTime, UpdateAt |-> ZeroTime]

\* id is the value of uuid.New(), t1 and t2 the two readings of time.Now()
CreateUserCommand(name, id, t1, t2) ==
  LET p == ParseUserName(name) IN
  IF p.err # Nil THEN [cmd |-> ZeroUserCommand, err |-> p.err]
  ELSE [cmd |-> [ID |-> NewUserID(id), Name |-> p.name, CreateAt |-> t1, UpdateAt |-> t2],
        err |-> Nil]

\* model.NewUser
NewUser(id, name) == [id |-> id, name |-> name]

----------------------------------------------------------------------------
(* Repository: the users table is a set of rows with primary key id *)

NewUserQuery(cmd) ==
  [id |-> Value(cmd.ID), name |-> String(cmd.Name),
   created_at |-> cmd.CreateAt, updated_at |-> cmd.UpdateAt]

\* mutant: on conflict the name of the existing row is kept
Upsert_KeepName(table, q) ==
  IF \E row \in table : row.id = q.id
  THEN {IF row.id = q.id
        THEN [row EXCEPT !.updated_at = q.updated_at]
        ELSE row : row \in table}
  ELSE table \cup {q}

\* mutant: on conflict the whole row is replaced
Upsert_Replace(table, q) ==
  {row \in table : row.id # q.id} \cup {q}

\* INSERT ... ON CONFLICT (id) DO UPDATE SET name, updated_at
Upsert(table, q) ==
  IF \E row \in table : row.id = q.id
  THEN {IF row.id = q.id
        THEN [row EXCEPT !.name = q.name, !.updated_at = q.updated_at]
        ELSE row : row \in table}
  ELSE table \cup {q}

\* mutant: the WHERE clause is missing
SelectById_AnyRow(table, id) == table

\* SELECT ... WHERE id = $1 scanned by db.Get
SelectById(table, id) == {row \in table : row.id = id}

\* fault: the driver reports an error and the statement has no effect.
\* Every layer returns a record: err, the table after the call (users), the
\* result (out) and the calls made below the handler, in order (calls).
\* mutant: a failed statement is tried once more
PsqlUserRepository_CreateUser_Retry(cmd, table, fault) ==
  LET query == NewUserQuery(cmd) IN
  IF fault
  THEN [err |-> NewRepositoryError(ErrConnection), users |-> table, out |-> Nil,
        calls |-> <<"repository.CreateUser", "sql", "sql">>, cmds |-> <<cmd>>]
  ELSE [err |-> Nil, users |-> Upsert(table, query), out |-> Nil,
        calls |-> <<"repository.CreateUser", "sql">>, cmds |-> <<cmd>>]

PsqlUserRepository_CreateUser(cmd, table, fault) ==
  LET query == NewUserQuery(cmd) IN
  IF fault
  THEN [err |-> NewRepositoryError(ErrConnection), users |-> table, out |-> Nil,
        calls |-> <<"repository.CreateUser", "sql">>, cmds |-> <<cmd>>]
  ELSE [err |-> Nil, users |-> Upsert(table, query), out |-> Nil,
        calls |-> <<"repository.CreateUser", "sql">>, cmds |-> <<cmd>>]

\* mutant: the row read is deleted
PsqlUserRepository_GetUser_Consume(userID, table, fault) ==
  LET found == SelectById(table, userID)
      failed(e) == [err |-> NewRepositoryError(e), users |-> table, out |-> Nil,
                    calls |-> <<"repository.GetUser", "sql">>, cmds |-> <<>>]
  IN IF fault THEN failed(ErrConnection)
     ELSE IF found = {} THEN failed(ErrNoRows)
     ELSE LET queryable == CHOOSE row \in found : TRUE IN
          [err |-> Nil, users |-> table \ found, out |-> NewUser(queryable.id, queryable.name),
           calls |-> <<"repository.GetUser", "sql">>, cmds |-> <<>>]

PsqlUserRepository_GetUser(userID, table, fault) ==
  LET found == SelectById(table, userID)
      failed(e) == [err |-> NewRepositoryError(e), users |-> table, out |-> Nil,
                    calls |-> <<"repository.GetUser", "sql">>, cmds |-> <<>>]
  IN IF fault THEN failed(ErrConnection)
     ELSE IF found = {} THEN failed(ErrNoRows)
     ELSE LET queryable == CHOOSE row \in found : TRUE IN
          [err |-> Nil, users |-> table, out |-> NewUser(queryable.id, queryable.name),
           calls |-> <<"repository.GetUser", "sql">>, cmds |-> <<>>]

----------------------------------------------------------------------------
(* Service and use case *)

\* mutant: a command that cannot be built is reported as a repository failure
UserServiceImpl_CreateUser_Repository(name, id, t1, t2, table, fault) ==
  LET c == CreateUserCommand(name, id, t1, t2) IN
  IF c.err # Nil
  THEN [err |-> NewServiceError(ServiceErrorContextRepository, c.err), users |-> table,
        out |-> Nil, calls |-> <<"service.CreateUser">>, cmds |-> <<>>]
  ELSE LET r == PsqlUserRepository_CreateUser(c.cmd, table, fault) IN
       [r EXCEPT !.err = IF r.err # Nil
                         THEN NewServiceError(ServiceErrorContextRepository, r.err)
                         ELSE Nil,
                 !.calls = <<"service.CreateUser">> \o r.calls]

UserServiceImpl_CreateUser(name, id, t1, t2, table, fault) ==
  LET c == CreateUserCommand(name, id, t1, t2) IN
  IF c.err # Nil
  THEN [err |-> NewServiceError(ServiceErrorContextValidation, c.err), users |-> table,
        out |-> Nil, calls |-> <<"service.CreateUser">>, cmds |-> <<>>]
  ELSE LET r == PsqlUserRepository_CreateUser(c.cmd, table, fault) IN
       [r EXCEPT !.err = IF r.err # Nil
                         THEN NewServiceError(ServiceErrorContextRepository, r.err)
                         ELSE Nil,
                 !.calls = <<"service.CreateUser">> \o r.calls]

\* mutant: the repository's error is dropped
UserServiceImpl_GetUser_Discard(id, table, fault) ==
  LET r == PsqlUserRepository_GetUser(id, table, fault) IN
  [r EXCEPT !.err = IF r.err # Nil
                    THEN NewServiceError(ServiceErrorContextRepository, Nil)
                    ELSE Nil,
            !.calls = <<"service.GetUser">> \o r.calls]

UserServiceImpl_GetUser(id, table, fault) ==
  LET r == PsqlUserRepository_GetUser(id, table, fault) IN
  [r EXCEPT !.err = IF r.err # Nil
                    THEN NewServiceError(ServiceErrorContextRepository, r.err)
                    ELSE Nil,
            !.calls = <<"service.GetUser">> \o r.calls]

\* mutant: a service failure is classified Conflict
UserUseCaseImpl_CreateUser_Conflict(input, id, t1, t2, table, fault) ==
  LET s == UserServiceImpl_CreateUser(input.Name, id, t1, t2, table, fault) IN
  [s EXCEPT !.err = IF s.err # Nil
                    THEN NewUseCaseError(UseCaseErrorContextConflict, s.err)
                    ELSE Nil,
            !.calls = <<"usecase.CreateUser">> \o s.calls]

\* input: CreateUserInput
UserUseCaseImpl_CreateUser(input, id, t1, t2, table, fault) ==
  LET s == UserServiceImpl_CreateUser(input.Name, id, t1, t2, table, fault) IN
  [s EXCEPT !.err = IF s.err # Nil
                    THEN NewUseCaseError(UseCaseErrorContextUnexpected, s.err)
                    ELSE Nil,
            !.calls = <<"usecase.CreateUser">> \o s.calls]

\* mutant: the failure is classified by the conversion table, not as NotFound
UserUseCaseImpl_GetUser_Converted(input, table, fault) ==
  LET s == UserServiceImpl_GetUser(input.Id, table, fault) IN
  IF s.err # Nil
  THEN [s EXCEPT !.err = ConvertServiceToUseCaseError(s.err),
                 !.out = [User |-> Nil],
                 !.calls = <<"usecase.GetUser">> \o s.calls]
  ELSE [s EXCEPT !.out = [User |-> s.out],
                 !.calls = <<"usecase.GetUser">> \o s.calls]

\* input: GetUserInput; out: GetUserOutput
UserUseCaseImpl_GetUser(input, table, fault) ==
  LET s == UserServiceImpl_GetUser(input.Id, table, fault) IN
  IF s.err # Nil
  THEN [s EXCEPT !.err = NewUseCaseError(UseCaseErrorContextNotFound,
                                         NotFoundError("User", UuidKey(input.Id), s.err)),
                 !.out = [User |-> Nil],
                 !.calls = <<"usecase.GetUser">> \o s.calls]
  ELSE [s EXCEPT !.out = [User |-> s.out],
                 !.calls = <<"usecase.GetUser">> \o s.calls]

----------------------------------------------------------------------------
(* HTTP handlers *)

\* request bodies of POST: JSON that binds to CreateUserInput, or not
Bodies == {[kind |-> "malformed"]} \cup {[kind |-> "json", name |-> n] : n \in NameSamples}

\* path parameters of GET: the text of a UUID, or some other text
PathParams == {[kind |-> "uuid", id |-> i] : i \in Ids}
                \cup {[kind |-> "text", text |-> "not-a-uuid"]}

\* ctx.Bind(&input)
Bind(body) ==
  IF body.kind = "json"
  THEN [input |-> [Name |-> body.name], err |-> Nil]
  ELSE [input |-> [Name |-> ""], err |-> ErrBind]

\* uuid.Parse(ctx.Param("userId"))
uuid_Parse(param) ==
  IF param.kind = "uuid"
  THEN [id |-> param.id, err |-> Nil]
  ELSE [id |-> NilUUID, err |-> ErrInvalidUUID]

\* encoding/json of nil
JsonNull == [kind |-> "null"]

UserHandler_CreateUser(body, id, t1, t2, table, fault, resp) ==
  LET b == Bind(body) IN
  IF b.err # Nil
  THEN [err |-> NewHandlerErrorWithMessage(HandlerErrorContextParseError, b.err, "Invalid input"),
        resp |-> resp, users |-> table, calls |-> <<>>, cmds |-> <<>>]
  ELSE LET u == UserUseCaseImpl_CreateUser(b.input, id, t1, t2, table, fault) IN
       IF u.err # Nil
       THEN [err |-> NewHandlerError(HandlerErrorContextUseCase, u.err),
             resp |-> resp, users |-> u.users, calls |-> u.calls, cmds |-> u.cmds]
       ELSE [err |-> Nil, resp |-> JSON(resp, StatusCreated, JsonNull),
             users |-> u.users, calls |-> u.calls, cmds |-> u.cmds]

\* mutant: the error of uuid.Parse is dropped and the use case runs on uuid.Nil
UserHandler_GetUser_NoParseCheck(param, table, fault, resp) ==
  LET p == uuid_Parse(param)
      u == UserUseCaseImpl_GetUser([Id |-> p.id], table, fault) IN
  IF u.err # Nil
  THEN [err |-> NewHandlerError(HandlerErrorContextUseCase, u.err),
        resp |-> resp, users |-> u.users, calls |-> u.calls, cmds |-> u.cmds]
  ELSE [err |-> Nil, resp |-> JSON(resp, StatusOK, u.out),
        users |-> u.users, calls |-> u.calls, cmds |-> u.cmds]

\* mutant: the use case's error is wrapped with the ParseError context
UserHandler_GetUser_Translated(param, table, fault, resp) ==
  LET p == uuid_Parse(param) IN
  IF p.err # Nil
  THEN [err |-> NewHandlerErrorWithMessage(HandlerErrorContextParseError, p.err, "Invalid input"),
        resp |-> resp, users |-> table, calls |-> <<>>, cmds |-> <<>>]
  ELSE LET u == UserUseCaseImpl_GetUser([Id |-> p.id], table, fault) IN
       IF u.err # Nil
       THEN [err |-> NewHandlerError(HandlerErrorContextParseError, u.err),
             resp |-> resp, users |-> u.users, calls |-> u.calls, cmds |-> u.cmds]
       ELSE [err |-> Nil, resp |-> JSON(resp, StatusOK, u.out),
             users |-> u.users, calls |-> u.calls, cmds |-> u.cmds]

UserHandler_GetUser(param, table, fault, resp) ==
  LET p == uuid_Parse(param) IN
  IF p.err # Nil
  THEN [err |-> NewHandlerErrorWithMessage(HandlerErrorContextParseError, p.err, "Invalid input"),
        resp |-> resp, users |-> table, calls |-> <<>>, cmds |-> <<>>]
  ELSE LET u == UserUseCaseImpl_GetUser([Id |-> p.id], table, fault) IN
       IF u.err # Nil
       THEN [err |-> NewHandlerError(HandlerErrorContextUseCase, u.err),
             resp |-> resp, users |-> u.users, calls |-> u.calls, cmds |-> u.cmds]
       ELSE [err |-> Nil, resp |-> JSON(resp, StatusOK, u.out),
             users |-> u.users, calls |-> u.calls, cmds |-> u.cmds]

\* echo: the error a route handler returns goes to e.HTTPErrorHandler
ServeHTTP(h) ==
  IF h.err # Nil
  THEN LET c == CustomHTTPErrorHandler(h.err, h.resp) IN
       [h EXCEPT !.resp = c.resp] @@ [logged |-> c.logged]
  ELSE h @@ [logged |-> Nil]

----------------------------------------------------------------------------
(* The server *)

VARIABLES
  users,     \* the users table
  clock,     \* the last reading of time.Now()
  issued,    \* the UUIDs uuid.New() has returned
  inflight,  \* per connection: the request waiting for its SQL statement
  last,      \* the last request answered, with its response
  call       \* the last call of a function on its own (specification SpecFn)

vars == <<users, clock, issued, inflight, last, call>>

Idle == [method |-> "idle"]
NoExchange == [method |-> "none"]
NoCall == [fn |-> "none"]

\* mutant: an id that may have been returned before
uuid_New_Any(seen) == Ids

\* the values uuid.New() can return: a version 4 UUID, never seen before
uuid_New(seen) == Ids \ seen

\* the values time.Now() can return after a reading of c
time_Now(c) == c..MaxClock

Exchange(method, input, fault, h) ==
  [method |-> method, input |-> input, fault |-> fault, err |-> h.err,
   resp |-> h.resp, calls |-> h.calls, cmds |-> h.cmds, logged |-> h.logged]

Init ==
  /\ users = {}
  /\ clock = 1
  /\ issued = {}
  /\ inflight = [r \in Reqs |-> Idle]
  /\ last = NoExchange
  /\ call = NoCall

\* POST /api/v1/private/users arrives.  A handler that builds no command reads
\* neither uuid.New() nor time.Now() and answers at once; otherwise the request
\* has built its command and waits for its SQL statement.
PostUsers(r) ==
  /\ inflight[r] = Idle
  /\ \E body \in Bodies :
       LET h == ServeHTTP(UserHandler_CreateUser(body, NilUUID, ZeroTime, ZeroTime,
                                                 users, FALSE, NoResponse)) IN
       IF h.cmds = <<>>
       THEN /\ last' = Exchange("POST", body, FALSE, h)
            /\ UNCHANGED <<users, clock, issued, inflight, call>>
       ELSE \E id \in uuid_New(issued), t1 \in time_Now(clock) :
              \E t2 \in time_Now(t1) :
                /\ inflight' = [inflight EXCEPT ![r] =
                                  [method |-> "POST", input |-> body,
                                   id |-> id, t1 |-> t1, t2 |-> t2]]
                /\ issued' = issued \cup {id}
                /\ clock' = t2
                /\ UNCHANGED <<users, last, call>>

\* GET /api/v1/private/users/:userId arrives
GetUsers(r) ==
  /\ inflight[r] = Idle
  /\ \E param \in PathParams :
       LET h == ServeHTTP(UserHandler_GetUser(param, users, FALSE, NoResponse)) IN
       IF h.calls = <<>>
       THEN /\ last' = Exchange("GET", param, FALSE, h)
            /\ UNCHANGED <<users, clock, issued, inflight, call>>
       ELSE /\ inflight' = [inflight EXCEPT ![r] = [method |-> "GET", input |-> param]]
            /\ UNCHANGED <<users, clock, issued, last, call>>

\* the database executes the statement of request r, or fails it, and the
\* handler runs to its response
Statement(r) ==
  /\ inflight[r] # Idle
  /\ \E fault \in BOOLEAN :
       LET q == inflight[r]
           h == IF q.method = "POST"
                THEN ServeHTTP(UserHandler_CreateUser(q.input, q.id, q.t1, q.t2,
                                                      users, fault, NoResponse))
                ELSE ServeHTTP(UserHandler_GetUser(q.input, users, fault, NoResponse))
       IN /\ users' = h.users
          /\ last' = Exchange(q.method, q.input, fault, h)
          /\ inflight' = [inflight EXCEPT ![r] = Idle]
          /\ UNCHANGED <<clock, issued, call>>

\* GET /health
Health(r) ==
  /\ inflight[r] = Idle
  /\ last' = Exchange("GET /health", [kind |-> "none"], FALSE,
                      [err |-> Nil,
                       resp |-> [Committed |-> TRUE, Status |-> StatusOK,
                                 Body |-> [text |-> "OK"], Writes |-> 1],
                       calls |-> <<>>, cmds |-> <<>>, logged |-> Nil])
  /\ UNCHANGED <<users, clock, issued, inflight, call>>

\* a request no route matches: echo's router returns its own 404 error
NoRoute(r) ==
  /\ inflight[r] = Idle
  /\ last' = Exchange("other", [kind |-> "none"], FALSE,
                      ServeHTTP([err |-> ErrRouteNotFound, resp |-> NoResponse,
                                 users |-> users, calls |-> <<>>, cmds |-> <<>>]))
  /\ UNCHANGED <<users, clock, issued, inflight, call>>

Next ==
  \E r \in Reqs :
    \/ PostUsers(r)
    \/ GetUsers(r)
    \/ Statement(r)
    \/ Health(r)
    \/ NoRoute(r)

Spec == Init /\ [][Next]_vars

----------------------------------------------------------------------------
(* The error functions on their own: SpecFn applies each to every input of a *)
(* bounded set of errors and records the call.                              *)

ServiceContexts ==
  {ServiceErrorContextUnexpected, ServiceErrorContextRepository,
   ServiceErrorContextValidation, OutOfEnum}
UseCaseContexts ==
  {UseCaseErrorContextUnexpected, UseCaseErrorContextParseError,
   UseCaseErrorContextNotFound, UseCaseErrorContextConflict,
   UsecaseErrorContextDatabase, UseCaseErrorContextInvalidInput, OutOfEnum}
HandlerContexts ==
  {HandlerErrorContextParseError, HandlerErrorContextUseCase,
   HandlerErrorContextInternalService, OutOfEnum}

ForeignErrors == {ErrNoRows, ErrConnection, ErrBind, ErrRouteNotFound}
LowErrors ==
  {NewModelErrorWithMessage(Nil, "Name is required"),
   NewRepositoryError(ErrNoRows), NewRepositoryError(ErrConnection)}
ServiceErrors ==
  {NewServiceError(c, i) : c \in ServiceContexts, i \in LowErrors \cup {Nil}}
UseCaseInners ==
  {Nil, ErrConnection,
   NewServiceError(ServiceErrorContextValidation, NewModelErrorWithMessage(Nil, "Name is required")),
   NotFoundError("User", UuidKey(1), NewServiceError(ServiceErrorContextRepository, NewRepositoryError(ErrNoRows)))}
UseCaseErrors ==
  {NewUseCaseError(c, i) : c \in UseCaseContexts, i \in UseCaseInners}
HandlerInners ==
  UseCaseErrors
    \cup {Nil, ErrBind, NewServiceError(ServiceErrorContextRepository, NewRepositoryError(ErrConnection))}
    \cup {FmtWrapError("wrapped", e) : e \in UseCaseErrors}
HandlerErrors ==
  {NewHandlerError(c, i) : c \in HandlerContexts, i \in HandlerInners}
    \cup {NewHandlerErrorWithMessage(c, i, "Invalid input") : c \in HandlerContexts, i \in HandlerInners}
Wrappable ==
  ServiceErrors \cup UseCaseErrors
    \cup {NewHandlerError(c, i) : c \in HandlerContexts, i \in UseCaseErrors}
ErrorInputs ==
  {Nil} \cup ForeignErrors \cup LowErrors \cup ServiceErrors \cup UseCaseErrors
    \cup HandlerErrors \cup {FmtWrapError("wrapped", e) : e \in Wrappable \cup {Nil, ErrBind}}

\* a response something has already been written to
CommittedResponse ==
  [Committed |-> TRUE, Status |-> StatusOK, Body |-> [text |-> "partial"], Writes |-> 1]

\* the inputs of a call: an error and the response it may be written to
FnInput(err, resp) == [fn |-> "input", err |-> err, resp |-> resp]

InitFn ==
  /\ users = {}
  /\ clock = 1
  /\ issued = {}
  /\ inflight = [r \in Reqs |-> Idle]
  /\ last = NoExchange
  /\ call \in {FnInput(err, resp) : err \in ErrorInputs, resp \in {NoResponse, CommittedResponse}}

ApplyConvertServiceToUseCaseError ==
  /\ call.fn = "input"
  /\ call' = [fn |-> "ConvertServiceToUseCaseError", err |-> call.err, resp |-> call.resp,
              out |-> ConvertServiceToUseCaseError(call.err)]
  /\ UNCHANGED <<users, clock, issued, inflight, last>>

ApplyConvertUseCaseErrorToHandlerError ==
  /\ call.fn = "input"
  /\ call' = [fn |-> "ConvertUseCaseErrorToHandlerError", err |-> call.err, resp |-> call.resp,
              out |-> ConvertUseCaseErrorToHandlerError(call.err)]
  /\ UNCHANGED <<users, clock, issued, inflight, last>>

ApplyCustomHTTPErrorHandler ==
  /\ call.fn = "input"
  /\ call' = [fn |-> "CustomHTTPErrorHandler", err |-> call.err, resp |-> call.resp,
              out |-> CustomHTTPErrorHandler(call.err, call.resp)]
  /\ UNCHANGED <<users, clock, issued, inflight, last>>

\* the three functions one after the other, on a response nothing was written to
ApplyConversionPath ==
  /\ call.fn = "input"
  /\ ~call.resp.Committed
  /\ LET useCaseError == ConvertServiceToUseCaseError(call.err)
         handlerError == ConvertUseCaseErrorToHandlerError(useCaseError)
     IN call' = [fn |-> "ConversionPath", err |-> call.err, resp |-> call.resp,
                 useCaseError |-> useCaseError, handlerError |-> handlerError,
                 out |-> CustomHTTPErrorHandler(handlerError, call.resp)]
  /\ UNCHANGED <<users, clock, issued, inflight, last>>

NextFn ==
  \/ ApplyConvertServiceToUseCaseError
  \/ ApplyConvertUseCaseErrorToHandlerError
  \/ ApplyCustomHTTPErrorHandler
  \/ ApplyConversionPath

SpecFn == InitFn /\ [][NextFn]_vars

----------------------------------------------------------------------------
(* The repository and the service on their own: SpecRepo calls the repository
   on the users table with any command a caller can build, SpecService calls
   the service *)

\* two instants a command can carry
TimeSamples == {ZeroTime, MaxClock}

\* model.UserCommand values: any id, any valid name, any two instants
UserCommands ==
  {[ID |-> NewUserID(i), Name |-> NewValueObject(n), CreateAt |-> t1, UpdateAt |-> t2] :
     i \in Ids, n \in NameSamples \ {""}, t1 \in TimeSamples, t2 \in TimeSamples}

\* written[i]: the name of the last write to id i that succeeded, if any
NothingWritten == [i \in Ids |-> <<>>]
Written(written, r) ==
  IF r.err = Nil /\ r.cmds # <<>>
  THEN [written EXCEPT ![Value(r.cmds[1].ID)] = <<String(r.cmds[1].Name)>>]
  ELSE written

\* the record of a call: its arguments, the table before it, what it returned
Called(fn, args, fault, r) ==
  [fn |-> fn, args |-> args, fault |-> fault, before |-> users, err |-> r.err,
   out |-> r.out, calls |-> r.calls, cmds |-> r.cmds, written |-> Written(call.written, r)]

InitRepo ==
  /\ users = {}
  /\ clock = 1
  /\ issued = {}
  /\ inflight = [r \in Reqs |-> Idle]
  /\ last = NoExchange
  /\ call = [fn |-> "none", written |-> NothingWritten]

RepoCreateUser ==
  \E cmd \in UserCommands, fault \in BOOLEAN :
    LET r == PsqlUserRepository_CreateUser(cmd, users, fault) IN
    /\ users' = r.users
    /\ call' = Called("PsqlUserRepository.CreateUser", [cmd |-> cmd], fault, r)
    /\ UNCHANGED <<clock, issued, inflight, last>>

RepoGetUser ==
  \E id \in Ids, fault \in BOOLEAN :
    LET r == PsqlUserRepository_GetUser(id, users, fault) IN
    /\ users' = r.users
    /\ call' = Called("PsqlUserRepository.GetUser", [id |-> id], fault, r)
    /\ UNCHANGED <<clock, issued, inflight, last>>

ServiceCreateUser ==
  \E name \in NameSamples, id \in Ids, t1 \in TimeSamples, fault \in BOOLEAN :
    \E t2 \in {t \in TimeSamples : t1 <= t} :
    LET r == UserServiceImpl_CreateUser(name, id, t1, t2, users, fault) IN
    /\ users' = r.users
    /\ call' = Called("UserServiceImpl.CreateUser", [name |-> name], fault, r)
    /\ UNCHANGED <<clock, issued, inflight, last>>

ServiceGetUser ==
  \E id \in Ids, fault \in BOOLEAN :
    LET r == UserServiceImpl_GetUser(id, users, fault) IN
    /\ users' = r.users
    /\ call' = Called("UserServiceImpl.GetUser", [id |-> id], fault, r)
    /\ UNCHANGED <<clock, issued, inflight, last>>

NextRepo ==
  \/ RepoCreateUser
  \/ RepoGetUser

SpecRepo == InitRepo /\ [][NextRepo]_vars

\* the service in front of the same repository
NextService ==
  \/ ServiceCreateUser
  \/ ServiceGetUser

SpecService == InitRepo /\ [][NextService]_vars

----------------------------------------------------------------------------
(* The value objects and NotFoundError on their own: SpecValue applies each
   function to one input drawn in InitValue *)

MaxAge == 2

\* strings a caller can pass as a name
NameInputs ==
  NameSamples \cup {" ", " Alice ", "a name of more than thirty-two characters"}

\* the spellings uuid.Parse accepts: 36 characters, the same in upper case,
\* with the urn:uuid: prefix, in braces, and 32 hex digits without hyphens
UuidForms == {"canonical", "upper", "urn", "braced", "hex"}

\* strings a caller can pass as an id: a UUID in one spelling, or something else
UuidInputs ==
  {[kind |-> "uuid", id |-> i, form |-> f] : i \in Ids \cup {NilUUID}, f \in UuidForms}
    \cup {[kind |-> "text", text |-> t] : t \in {"", "not-a-uuid", "user_0"}}

\* uuid.UUID.String: the 36 character lower-case spelling
uuid_String(id) == [kind |-> "uuid", id |-> id, form |-> "canonical"]

\* mutant: the parsed value is dropped
ParseUserID_Nil(userID) ==
  LET p == uuid_Parse(userID) IN
  IF p.err # Nil
  THEN [id |-> NewValueObject(NilUUID), err |-> NewModelErrorWithMessage(p.err, "Invalid user id")]
  ELSE [id |-> NewValueObject(NilUUID), err |-> Nil]

ParseUserID(userID) ==
  LET p == uuid_Parse(userID) IN
  IF p.err # Nil
  THEN [id |-> NewValueObject(NilUUID), err |-> NewModelErrorWithMessage(p.err, "Invalid user id")]
  ELSE [id |-> NewValueObject(p.id), err |-> Nil]

\* valueObject.String of a UserID: %v of a uuid.UUID is its String method
UserID_String(userID) == uuid_String(Value(userID))

\* keys NotFoundError is called with: a uuid.UUID, or the test's UserID string
NotFoundKeys ==
  {UuidKey(i) : i \in Ids} \cup {StringKey("UserID", "user_0")}

\* Date{year, month, day}
Date(year, month, day) == [year |-> year, month |-> month, day |-> day]

\* (month, day) pairs time.Now().Date() can return
DaySamples == {<<1, 1>>, <<1, 31>>, <<2, 28>>, <<6, 15>>, <<12, 1>>, <<12, 31>>}

\* today, in a year late enough for MaxAge years of age
Todays == {Date(MaxAge + y, md[1], md[2]) : y \in {0, 1}, md \in DaySamples}

\* birth dates as the test builds them, field by field from today's date
Shifts == {<<0, 0>>, <<1, 0>>, <<0, 1>>, <<-1, 0>>, <<0, -1>>, <<-11, -1>>}
Births(today) ==
  {Date(today.year - n, today.month + sh[1], today.day + sh[2]) :
     n \in 0..MaxAge, sh \in Shifts}

\* mutant: the birthday itself counts as not yet reached
CalcAge_Inclusive(d, today) ==
  LET age == today.year - d.year IN
  IF today.month < d.month \/ (today.month = d.month /\ today.day <= d.day)
  THEN age - 1
  ELSE age

\* Date.CalcAge; today is what time.Now().Date() returns
CalcAge(d, today) ==
  LET age == today.year - d.year IN
  IF today.month < d.month \/ (today.month = d.month /\ today.day < d.day)
  THEN age - 1
  ELSE age

ValueInputs ==
  {[fn |-> "input", of |-> "name", name |-> n] : n \in NameInputs}
    \cup {[fn |-> "input", of |-> "id", userID |-> u] : u \in UuidInputs}
    \cup {[fn |-> "input", of |-> "key", resource |-> "User", key |-> k, inner |-> i] :
            k \in NotFoundKeys, i \in {Nil, ErrNoRows}}
    \cup {[fn |-> "input", of |-> "date", today |-> t, d |-> b] :
            t \in Todays, b \in UNION {Births(x) : x \in Todays}}

InitValue ==
  /\ users = {}
  /\ clock = 1
  /\ issued = {}
  /\ inflight = [r \in Reqs |-> Idle]
  /\ last = NoExchange
  /\ call \in ValueInputs

ApplyParseUserName ==
  /\ call.fn = "input" /\ call.of = "name"
  /\ call' = [fn |-> "ParseUserName", name |-> call.name, out |-> ParseUserName(call.name)]
  /\ UNCHANGED <<users, clock, issued, inflight, last>>

ApplyParseUserID ==
  /\ call.fn = "input" /\ call.of = "id"
  /\ call' = [fn |-> "ParseUserID", userID |-> call.userID, out |-> ParseUserID(call.userID)]
  /\ UNCHANGED <<users, clock, issued, inflight, last>>

ApplyNotFoundError ==
  /\ call.fn = "input" /\ call.of = "key"
  /\ call' = [fn |-> "NotFoundError", resource |-> call.resource, key |-> call.key,
              inner |-> call.inner,
              out |-> NotFoundError(call.resource, call.key, call.inner)]
  /\ UNCHANGED <<users, clock, issued, inflight, last>>

ApplyCalcAge ==
  /\ call.fn = "input" /\ call.of = "date"
  /\ call' = [fn |-> "CalcAge", today |-> call.today, d |-> call.d,
              out |-> CalcAge(call.d, call.today)]
  /\ UNCHANGED <<users, clock, issued, inflight, last>>

NextValue ==
  \/ ApplyParseUserName
  \/ ApplyParseUserID
  \/ ApplyNotFoundError
  \/ ApplyCalcAge

SpecValue == InitValue /\ [][NextValue]_vars

----------------------------------------------------------------------------
(* Concurrent requests: SpecConc serves MaxConn connections at once.  Requests
   arrive as in Spec; the statement of each is executed at some later moment,
   in any order, and call keeps what that statement saw.  A connection is
   closed once its request has had its statement executed *)

MaxConn == 2
Conns == 1..MaxConn
Closed == [method |-> "closed"]

InitConc ==
  /\ users = {}
  /\ clock = 1
  /\ issued = {}
  /\ inflight = [c \in Conns |-> Idle]
  /\ last = NoExchange
  /\ call = NoCall

\* the database executes the statement of the request on connection c while
\* the requests of the connections in waiting are still in flight
ConcStatement(c) ==
  /\ inflight[c] \notin {Idle, Closed}
  /\ \E fault \in BOOLEAN :
       LET q == inflight[c]
           h == IF q.method = "POST"
                THEN ServeHTTP(UserHandler_CreateUser(q.input, q.id, q.t1, q.t2,
                                                      users, fault, NoResponse))
                ELSE ServeHTTP(UserHandler_GetUser(q.input, users, fault, NoResponse))
       IN /\ users' = h.users
          /\ last' = Exchange(q.method, q.input, fault, h)
          /\ inflight' = [inflight EXCEPT ![c] = Closed]
          /\ call' = [fn |-> "statement", request |-> q, fault |-> fault, before |-> users,
                      waiting |-> {o \in Conns \ {c} : inflight[o] \notin {Idle, Closed}}]
          /\ UNCHANGED <<clock, issued>>

NextConc ==
  \E c \in Conns :
    \/ PostUsers(c)
    \/ GetUsers(c)
    \/ ConcStatement(c)

SpecConc == InitConc /\ [][NextConc]_vars

----------------------------------------------------------------------------
(* Claims *)

ErrorBodyKeys == {"statusCode", "message", "details"}

\* C1: given a HandlerError on an uncommitted response, the central handler
\* answers 400 when its context is ParseError; otherwise, when its inner error
\* is a UseCaseError, NotFound gives 404, Conflict 409, InvalidInput 422 and
\* Database or Unexpected 500.
C1_StatusByContext ==
  (call.fn = "CustomHTTPErrorHandler" /\ call.err.kind = "HandlerError" /\ ~call.resp.Committed)
    => LET e == call.err
           r == call.out.resp
       IN /\ e.context = HandlerErrorContextParseError
               => (r.Committed /\ r.Status = 400)
          /\ (e.context # HandlerErrorContextParseError /\ e.inner.kind = "UseCaseError")
               => /\ r.Committed
                  /\ e.inner.context = UseCaseErrorContextNotFound => r.Status = 404
                  /\ e.inner.context = UseCaseErrorContextConflict => r.Status = 409
                  /\ e.inner.context = UseCaseErrorContextInvalidInput => r.Status = 422
                  /\ e.inner.context = UsecaseErrorContextDatabase => r.Status = 500
                  /\ e.inner.context = UseCaseErrorContextUnexpected => r.Status = 500

C1_Witness ==
  /\ call.fn = "CustomHTTPErrorHandler"
  /\ call.err.kind = "HandlerError"
  /\ ~call.resp.Committed
  /\ call.err.context = HandlerErrorContextUseCase
  /\ call.err.inner.kind = "UseCaseError"
  /\ call.err.inner.context = UseCaseErrorContextConflict
  /\ call.out.resp.Status = 409

\* C2: every non-nil error given to the central handler on an uncommitted
\* response is answered with a JSON body {statusCode, message, details} and a
\* status in {400, 404, 409, 422, 500}.
C2_EveryErrorAnswered ==
  (call.fn = "CustomHTTPErrorHandler" /\ call.err # Nil /\ ~call.resp.Committed)
    => /\ call.out.resp.Committed
       /\ call.out.resp.Status \in {400, 404, 409, 422, 500}
       /\ DOMAIN call.out.resp.Body = ErrorBodyKeys

\* C3: a POST whose body binds and whose name is empty is answered 400 or 422
\* with a non-empty message, and issues no write.
C3_EmptyNameRejected ==
  (last.method = "POST" /\ last.input.kind = "json" /\ last.input.name = "")
    => /\ last.resp.Committed
       /\ last.resp.Status \in {400, 422}
       /\ last.resp.Body.message # ""
       /\ last.cmds = <<>>

\* C4: a GET with a valid id whose lookup fails, by a missing row or by a
\* database error, is answered 404, and the use-case error is NotFound.
C4_LookupFailureIs404 ==
  (last.method = "GET" /\ last.input.kind = "uuid" /\ last.err # Nil)
    => /\ last.resp.Committed
       /\ last.resp.Status = 404
       /\ last.err.inner.kind = "UseCaseError"
       /\ last.err.inner.context = UseCaseErrorContextNotFound

\* a database error on the lookup of a row that exists
C4_Witness ==
  /\ last.method = "GET"
  /\ last.input.kind = "uuid"
  /\ last.fault
  /\ \E row \in users : row.id = last.input.id
  /\ last.resp.Status = 404

\* C5: a POST whose body does not bind, or a GET whose path parameter is not
\* a UUID, gives a HandlerError of context ParseError, is answered 400, and
\* neither the use case nor any SQL statement runs.
C5_ParseFailureIs400 ==
  (\/ last.method = "POST" /\ last.input.kind = "malformed"
   \/ last.method = "GET" /\ last.input.kind = "text")
    => /\ last.err.kind = "HandlerError"
       /\ last.err.context = HandlerErrorContextParseError
       /\ last.resp.Committed
       /\ last.resp.Status = 400
       /\ last.calls = <<>>

C5_Witness ==
  /\ last.method = "GET"
  /\ last.input.kind = "text"
  /\ last.input.text = "not-a-uuid"
  /\ last.resp.Status = 400
  /\ users # {}

\* C6: a POST with a non-empty name whose write the database accepts is
\* answered 201 and adds exactly one row, with an id no row had before and the
\* submitted name; the rows that existed are unchanged.
C6_CreateAddsOneRow ==
  [][/\ (last'.method = "POST" /\ last'.input.kind = "json" /\ last'.input.name # ""
           /\ ~last'.fault)
          => (last'.resp.Committed /\ last'.resp.Status = 201)
     /\ \A r \in Reqs :
          (inflight[r].method = "POST" /\ inflight'[r] = Idle /\ ~last'.fault)
            => /\ last'.resp.Status = 201
               /\ \E row \in users' :
                    /\ row.id = inflight[r].id
                    /\ row.id \notin {x.id : x \in users}
                    /\ row.name = inflight[r].input.name
                    /\ users' = users \cup {row}
                    /\ Cardinality(users') = Cardinality(users) + 1]_vars

\* a second user is created
C6_Witness ==
  /\ last.method = "POST"
  /\ last.resp.Status = 201
  /\ Cardinality(users) = 2

\* C7: every response to POST users has a status in {201, 400, 422, 500} and
\* every response to GET users/{userId} a status in {200, 400, 404, 500}.
C7_StatusSets ==
  /\ last.method = "POST"
       => (last.resp.Committed /\ last.resp.Status \in {201, 400, 422, 500})
  /\ last.method = "GET"
       => (last.resp.Committed /\ last.resp.Status \in {200, 400, 404, 500})

C7_Witness ==
  /\ last.method = "POST"
  /\ last.fault
  /\ last.resp.Status = 500

\* C8: ConvertServiceToUseCaseError of a ServiceError is a UseCaseError whose
\* inner error is that ServiceError and whose context is InvalidInput for
\* Validation, Database for Repository and Unexpected for any other context.
C8_ServiceToUseCase ==
  (call.fn = "ConvertServiceToUseCaseError" /\ call.err.kind = "ServiceError")
    => /\ call.out.kind = "UseCaseError"
       /\ call.out.inner = call.err
       /\ call.out.context =
            IF call.err.context = ServiceErrorContextValidation
            THEN UseCaseErrorContextInvalidInput
            ELSE IF call.err.context = ServiceErrorContextRepository
            THEN UsecaseErrorContextDatabase
            ELSE UseCaseErrorContextUnexpected

C8_Witness ==
  /\ call.fn = "ConvertServiceToUseCaseError"
  /\ call.err.kind = "ServiceError"
  /\ call.err.context = ServiceErrorContextValidation
  /\ call.out.context = UseCaseErrorContextInvalidInput

\* C9: ConvertUseCaseErrorToHandlerError of a UseCaseError is a HandlerError
\* whose inner error is that UseCaseError and whose context is ParseError for
\* InvalidInput and UseCase for every other context.
C9_UseCaseToHandler ==
  (call.fn = "ConvertUseCaseErrorToHandlerError" /\ call.err.kind = "UseCaseError")
    => /\ call.out.kind = "HandlerError"
       /\ call.out.inner = call.err
       /\ call.out.context =
            IF call.err.context = UseCaseErrorContextInvalidInput
            THEN HandlerErrorContextParseError
            ELSE HandlerErrorContextUseCase

C9_Witness ==
  /\ call.fn = "ConvertUseCaseErrorToHandlerError"
  /\ call.err.kind = "UseCaseError"
  /\ call.err.context = UseCaseErrorContextNotFound
  /\ call.out.context = HandlerErrorContextUseCase

\* C10: an empty name gives an error and no command; a non-empty name gives a
\* command with that name, a valid id and both timestamps set; so every
\* command given to the repository and every stored row has a non-empty name.
C10_CommandsValid ==
  /\ (last.method = "POST" /\ last.input.kind = "json" /\ last.input.name = "")
       => (last.err # Nil /\ last.cmds = <<>>)
  /\ (last.method = "POST" /\ last.input.kind = "json" /\ last.input.name # "")
       => /\ Len(last.cmds) = 1
          /\ Value(last.cmds[1].Name) = last.input.name
          /\ Value(last.cmds[1].ID) \in Ids
          /\ last.cmds[1].CreateAt # ZeroTime
          /\ last.cmds[1].UpdateAt # ZeroTime
  /\ last.method = "POST" => \A i \in 1..Len(last.cmds) : Value(last.cmds[i].Name) # ""
  /\ \A row \in users : row.name # ""

\* an empty name is refused after a user was stored
C10_Witness ==
  /\ last.method = "POST"
  /\ last.input.kind = "json"
  /\ last.input.name = ""
  /\ last.err # Nil
  /\ users # {}

\* C11: a user written by the repository's CreateUser with id X and name N is
\* what the repository's GetUser returns for X, as long as no later write to X
\* succeeded and the SELECT itself does not fail.
C11_RepositoryRoundTrip ==
  (call.fn = "PsqlUserRepository.GetUser" /\ ~call.fault
     /\ call.written[call.args.id] # <<>>)
    => /\ call.err = Nil
       /\ call.out = [id |-> call.args.id, name |-> call.written[call.args.id][1]]

\* a second write changed the name of an id before it was read
C11_Witness ==
  /\ call.fn = "PsqlUserRepository.GetUser"
  /\ ~call.fault
  /\ call.written[call.args.id] = <<"Bob">>
  /\ \E row \in users : row.id = call.args.id /\ row.created_at # row.updated_at
  /\ call.out = [id |-> call.args.id, name |-> "Bob"]

\* C12: the repository's CreateUser is an upsert keyed by id. After it succeeds
\* there is exactly one row with the command's id, carrying the command's name
\* and updated_at; created_at is the existing row's when there was one and the
\* command's otherwise; every other row is as before; applying the same command
\* again changes nothing.
C12_IdempotentUpsert ==
  (call.fn = "PsqlUserRepository.CreateUser" /\ call.err = Nil)
    => LET q == NewUserQuery(call.args.cmd)
           old == {row \in call.before : row.id = q.id}
           new == {row \in users : row.id = q.id}
       IN /\ Cardinality(new) = 1
          /\ \A row \in new :
               /\ row.name = q.name
               /\ row.updated_at = q.updated_at
               /\ row.created_at \in IF old = {} THEN {q.created_at}
                                     ELSE {o.created_at : o \in old}
          /\ users \ new = call.before \ old
          /\ PsqlUserRepository_CreateUser(call.args.cmd, users, FALSE).users = users

\* an existing row was rewritten with another name and another created_at
C12_Witness ==
  /\ call.fn = "PsqlUserRepository.CreateUser"
  /\ call.err = Nil
  /\ \E o \in call.before :
       /\ o.id = Value(call.args.cmd.ID)
       /\ o.name # String(call.args.cmd.Name)
       /\ o.created_at # call.args.cmd.CreateAt
       /\ o.updated_at # call.args.cmd.UpdateAt
  /\ \E row \in call.before : row.id # Value(call.args.cmd.ID)

\* C13: the details field of a failure response is the handler error's own
\* message and carries no text of the errors below it, so that failures that
\* differ only in the inner message are answered with the same body.
C13_DetailsFromHandlerMessage ==
  (last.method \in {"POST", "GET"} /\ last.err # Nil /\ last.resp.Committed)
    => /\ DOMAIN last.resp.Body = ErrorBodyKeys
       /\ last.resp.Body.details = last.err.message

\* C14: a successful GET /users/:userId is answered 200 with a JSON object
\* whose top-level fields are id and name, the requested id and the stored name.
C14_GetBodyIsIdAndName ==
  (last.method = "GET" /\ last.err = Nil)
    => /\ last.resp.Status = StatusOK
       /\ DOMAIN last.resp.Body = {"id", "name"}
       /\ last.resp.Body.id = last.input.id
       /\ \E row \in users : row.id = last.input.id /\ row.name = last.resp.Body.name

\* C19: when the service fails, the CreateUser use case returns a UseCaseError
\* around the service error whose context is the one the conversion table
\* gives: InvalidInput for Validation, Database for Repository, Unexpected
\* otherwise.
C19_CreateUserContextByTable ==
  (last.method = "POST" /\ last.err # Nil
     /\ last.err.context = HandlerErrorContextUseCase)
    => LET useCaseError == last.err.inner IN
       /\ useCaseError.kind = "UseCaseError"
       /\ useCaseError.inner.kind = "ServiceError"
       /\ useCaseError.context = ConvertServiceToUseCaseError(useCaseError.inner).context

\* C15: ParseUserName succeeds for every non-empty string and the name it
\* returns prints as that string, unchanged; for the empty string it fails
\* with a ModelError.
C15_ParseUserName ==
  call.fn = "ParseUserName"
    => /\ call.name # ""
            => (call.out.err = Nil /\ String(call.out.name) = call.name)
       /\ call.name = "" => call.out.err.kind = "ModelError"

\* a name with surrounding blanks, and one longer than a column would hold
C15_Witness ==
  /\ call.fn = "ParseUserName"
  /\ call.name \in {" Alice ", "a name of more than thirty-two characters"}
  /\ call.out.err = Nil
  /\ Value(call.out.name) = call.name

C17_NotFoundMessage ==
  (call.fn = "NotFoundError" /\ call.inner = Nil)
    => /\ ErrorString(call.out)
            = call.resource \o " not found " \o TypeName(call.key) \o "(" \o Quoted(call.key) \o ")"
       /\ (call.resource = "User" /\ call.key = StringKey("UserID", "user_0"))
            => ErrorString(call.out) = "User not found UserId(\"user_0\")"

\* C18: CalcAge is the current year minus the birth year, less one exactly
\* when today's (month, day) is earlier than the birth (month, day): a birth
\* date N years before today gives N, and the same date one month or one day
\* later gives N - 1.
C18_CalcAge ==
  call.fn = "CalcAge"
    => LET t == call.today
           d == call.d
           n == t.year - d.year
           earlier == t.month * 100 + t.day < d.month * 100 + d.day
       IN /\ call.out = n - (IF earlier THEN 1 ELSE 0)
          /\ (d.month = t.month /\ d.day = t.day) => call.out = n
          /\ (d.month = t.month + 1 /\ d.day = t.day) => call.out = n - 1
          /\ (d.month = t.month /\ d.day = t.day + 1) => call.out = n - 1

\* the birthday is today, and the age is the largest the bound allows
C18_Witness ==
  /\ call.fn = "CalcAge"
  /\ call.d.month = call.today.month
  /\ call.d.day = call.today.day
  /\ call.today.year - call.d.year = MaxAge
  /\ call.out = MaxAge

\* C20: UserService.CreateUser returns ServiceError{Validation} when the
\* command cannot be built, without calling the repository and with the table
\* as it was, and ServiceError{Repository} when the repository fails;
\* UserService.GetUser returns ServiceError{Repository} around any repository
\* failure and otherwise the repository's user, unchanged.
C20_ServiceErrors ==
  /\ call.fn = "UserServiceImpl.CreateUser"
       => /\ call.args.name = ""
               => /\ call.err.kind = "ServiceError"
                  /\ call.err.context = ServiceErrorContextValidation
                  /\ call.err.inner.kind = "ModelError"
                  /\ \A i \in DOMAIN call.calls : call.calls[i] # "repository.CreateUser"
                  /\ users = call.before
          /\ (call.args.name # "" /\ call.fault)
               => /\ call.err.kind = "ServiceError"
                  /\ call.err.context = ServiceErrorContextRepository
                  /\ call.err.inner.kind = "RepositoryError"
          /\ (call.args.name # "" /\ ~call.fault) => call.err = Nil
  /\ call.fn = "UserServiceImpl.GetUser"
       => LET r == PsqlUserRepository_GetUser(call.args.id, call.before, call.fault) IN
          /\ (call.fault \/ \A row \in call.before : row.id # call.args.id) => r.err # Nil
          /\ r.err # Nil
               => /\ call.err.kind = "ServiceError"
                  /\ call.err.context = ServiceErrorContextRepository
                  /\ call.err.inner = r.err
          /\ r.err = Nil => (call.err = Nil /\ call.out = r.out)

\* an empty name is refused while the table already holds a row
C20_Witness ==
  /\ call.fn = "UserServiceImpl.CreateUser"
  /\ call.args.name = ""
  /\ call.before # {}
  /\ users = call.before
  /\ call.err.kind = "ServiceError"
  /\ call.err.context = ServiceErrorContextValidation

\* what the use case returned to the handler in the last exchange; a failed
\* request leaves the table as it was
UseCaseErrorOf(x) ==
  IF x.method = "GET"
  THEN UserUseCaseImpl_GetUser([Id |-> uuid_Parse(x.input).id], users, x.fault).err
  ELSE LET cmd == IF x.cmds = <<>> THEN ZeroUserCommand ELSE x.cmds[1] IN
       UserUseCaseImpl_CreateUser(Bind(x.input).input, Value(cmd.ID), cmd.CreateAt,
                                  cmd.UpdateAt, users, x.fault).err

\* C21: when the use case fails, the handler returns a HandlerError of context
\* UseCase, whatever the use case's own context, whose inner error is the
\* UseCaseError the use case returned; the status of the response is the one
\* the central handler derives from that inner error's context.
C21_UseCaseFailureWrapped ==
  (last.method \in {"POST", "GET"} /\ last.calls # <<>> /\ last.err # Nil)
    => /\ last.err.kind = "HandlerError"
       /\ last.err.context = HandlerErrorContextUseCase
       /\ last.err.inner.kind = "UseCaseError"
       /\ last.err.inner = UseCaseErrorOf(last)
       /\ last.resp.Status = errorContextToStatusCode(last.err.inner.context)

\* a lookup that found no row: the use case's context is NotFound, the
\* handler's is UseCase, and the answer is 404
C21_Witness ==
  /\ last.method = "GET"
  /\ ~last.fault
  /\ last.err # Nil
  /\ last.err.context = HandlerErrorContextUseCase
  /\ last.err.inner.kind = "UseCaseError"
  /\ last.err.inner.context = UseCaseErrorContextNotFound
  /\ last.resp.Status = StatusNotFound

\* C22: a HandlerError whose context is not ParseError and whose inner error
\* is not, and does not unwrap to, a UseCaseError is answered 500 on an
\* uncommitted response.
C22_Generic500 ==
  (call.fn = "CustomHTTPErrorHandler" /\ call.err.kind = "HandlerError"
     /\ ~call.resp.Committed
     /\ call.err.context # HandlerErrorContextParseError
     /\ ErrorsAs(call.err.inner, "UseCaseError") = Nil)
    => /\ call.out.resp.Committed
       /\ call.out.resp.Status = StatusInternalServerError

\* C23: the two conversions return nil for nil, nil for an error that is not
\* and does not unwrap to the lower layer's error, and a wrapper around the
\* lower layer's error for every context it can carry, declared or not.
C23_ConversionsTotal ==
  call.fn \in {"ConvertServiceToUseCaseError", "ConvertUseCaseErrorToHandlerError"}
    => LET lower == IF call.fn = "ConvertServiceToUseCaseError"
                    THEN "ServiceError" ELSE "UseCaseError"
           upper == IF call.fn = "ConvertServiceToUseCaseError"
                    THEN "UseCaseError" ELSE "HandlerError"
           found == ErrorsAs(call.err, lower)
       IN /\ call.err = Nil => call.out = Nil
          /\ found = Nil => call.out = Nil
          /\ found # Nil => (call.out.kind = upper /\ call.out.inner = found)

\* a wrapped ServiceError with a context outside the declared ones
C23_Witness ==
  /\ call.fn = "ConvertServiceToUseCaseError"
  /\ call.err.kind = "fmt.wrapError"
  /\ call.err.inner.kind = "ServiceError"
  /\ call.err.inner.context = OutOfEnum
  /\ call.out.kind = "UseCaseError"
  /\ call.out.inner = call.err.inner

\* C28: the central handler writes nothing and leaves the response as it is
\* when the error is nil or the response is committed, and writes at most one
\* body otherwise.
C28_AtMostOneWrite ==
  call.fn = "CustomHTTPErrorHandler"
    => /\ (call.err = Nil \/ call.resp.Committed) => call.out.resp = call.resp
       /\ call.out.resp.Writes <= call.resp.Writes + 1
       /\ ~call.resp.Committed => call.out.resp.Writes <= 1

\* an error arrives after the response was committed
C28_Witness ==
  /\ call.fn = "CustomHTTPErrorHandler"
  /\ call.err.kind = "HandlerError"
  /\ call.resp.Committed
  /\ call.out.resp = call.resp
  /\ call.out.resp.Writes = 1

\* C29: in every body the central handler writes, statusCode is the status of
\* the response and message is the standard text of that status.
C29_BodyMatchesStatus ==
  (call.fn = "CustomHTTPErrorHandler" /\ call.out.resp # call.resp)
    => /\ DOMAIN call.out.resp.Body = ErrorBodyKeys
       /\ call.out.resp.Body.statusCode = call.out.resp.Status
       /\ call.out.resp.Body.message = StatusText(call.out.resp.Status)

\* a 404 body
C29_Witness ==
  /\ call.fn = "CustomHTTPErrorHandler"
  /\ call.out.resp # call.resp
  /\ call.out.resp.Status = StatusNotFound
  /\ call.out.resp.Body.statusCode = 404
  /\ call.out.resp.Body.message = "Not Found"

\* C30: a ServiceError taken through ConvertServiceToUseCaseError,
\* ConvertUseCaseErrorToHandlerError and the central handler is answered 400
\* when its context is Validation and 500 when it is Repository or Unexpected;
\* 422 is never the answer.
C30_ConversionPath ==
  (call.fn = "ConversionPath" /\ call.err.kind = "ServiceError")
    => /\ call.out.resp.Committed
       /\ call.err.context = ServiceErrorContextValidation
            => call.out.resp.Status = StatusBadRequest
       /\ call.err.context \in {ServiceErrorContextRepository, ServiceErrorContextUnexpected}
            => call.out.resp.Status = StatusInternalServerError
       /\ call.out.resp.Status # StatusUnprocessableEntity

\* a validation failure goes through InvalidInput and ParseError to 400
C30_Witness ==
  /\ call.fn = "ConversionPath"
  /\ call.err.kind = "ServiceError"
  /\ call.err.context = ServiceErrorContextValidation
  /\ call.useCaseError.context = UseCaseErrorContextInvalidInput
  /\ call.handlerError.context = HandlerErrorContextParseError
  /\ call.out.resp.Status = StatusBadRequest

\* the dynamic types along the inner errors of e, outermost first, down to
\* the cause (a foreign error, or nil when the last wrapper has no inner error)
RECURSIVE Kinds(_)
Kinds(e) ==
  IF e.kind \in {"nil", "foreign"} THEN <<e.kind>> ELSE <<e.kind>> \o Kinds(e.inner)

\* the layers' own wrappers among them
IsLayer(k) ==
  k \in {"HandlerError", "UseCaseError", "ServiceError", "ModelError", "RepositoryError"}
Layers(e) == SelectSeq(Kinds(e), IsLayer)

\* what the service returned to the use case in the last exchange
ServiceErrorOf(x) ==
  IF x.method = "GET"
  THEN UserServiceImpl_GetUser(uuid_Parse(x.input).id, users, x.fault).err
  ELSE LET cmd == IF x.cmds = <<>> THEN ZeroUserCommand ELSE x.cmds[1] IN
       UserServiceImpl_CreateUser(Bind(x.input).input.Name, Value(cmd.ID), cmd.CreateAt,
                                  cmd.UpdateAt, users, x.fault).err

\* C24 as stated: the error of every failing request is Handler around UseCase
\* around Service around Model or Repository, each wrapper's inner error being
\* the error the layer below returned.
C24_ChainAsStated ==
  (last.method \in {"POST", "GET"} /\ last.err # Nil)
    => /\ Layers(last.err) \in {<<"HandlerError", "UseCaseError", "ServiceError", "ModelError">>,
                                <<"HandlerError", "UseCaseError", "ServiceError", "RepositoryError">>}
       /\ last.err.inner = UseCaseErrorOf(last)
       /\ last.err.inner.inner = ServiceErrorOf(last)

\* C24: the error of a request that failed in or below its use case holds each
\* layer's wrapper once, in the order Handler, UseCase, Service, then Model or
\* Repository, and ends with the original cause; each wrapper's inner error is
\* the error the layer below returned, except that the GetUser use case puts
\* the service's error inside a NotFoundError (fmt.Errorf with %w) and wraps
\* that.  A request refused by the handler itself is a HandlerError around the
\* bind or parse error only.
C24_ChainOrder ==
  (last.method \in {"POST", "GET"} /\ last.err # Nil)
    => IF last.calls = <<>>
       THEN Kinds(last.err) = <<"HandlerError", "foreign">>
       ELSE /\ Layers(last.err) \in
                 {<<"HandlerError", "UseCaseError", "ServiceError", "ModelError">>,
                  <<"HandlerError", "UseCaseError", "ServiceError", "RepositoryError">>}
            /\ last.err.inner = UseCaseErrorOf(last)
            /\ last.method = "POST"
                 => /\ last.err.inner.inner = ServiceErrorOf(last)
                    /\ Kinds(last.err) \in
                         {<<"HandlerError", "UseCaseError", "ServiceError", "ModelError", "nil">>,
                          <<"HandlerError", "UseCaseError", "ServiceError", "RepositoryError",
                            "foreign">>}
            /\ last.method = "GET"
                 => /\ last.err.inner.inner =
                         NotFoundError("User", UuidKey(uuid_Parse(last.input).id),
                                       ServiceErrorOf(last))
                    /\ Kinds(last.err) =
                         <<"HandlerError", "UseCaseError", "fmt.wrapError", "ServiceError",
                           "RepositoryError", "foreign">>

\* a lookup whose SELECT failed: the driver's error is at the end of the chain
C24_Witness ==
  /\ last.method = "GET"
  /\ last.fault
  /\ last.err # Nil
  /\ Len(Kinds(last.err)) = 6
  /\ last.err.inner.inner.inner.inner.inner = ErrConnection

\* how many of the calls of a trace are in a set of names
CountOf(calls, names) == Cardinality({i \in DOMAIN calls : calls[i] \in names})

\* C25: a request whose use case runs calls the repository at most once, and
\* each repository call issues one SQL statement and nothing else, whether the
\* statement succeeds or fails; a request refused before the repository (a
\* body or id that does not parse, an empty name) issues none.
C25_OneStatement ==
  last.method \in {"POST", "GET"}
    => LET sql == CountOf(last.calls, {"sql"})
           repo == CountOf(last.calls, {"repository.CreateUser", "repository.GetUser"})
       IN /\ repo <= 1
          /\ sql = repo
          /\ \A i \in DOMAIN last.calls :
               last.calls[i] = "sql" => (i > 1 /\ last.calls[i - 1] \in
                                           {"repository.CreateUser", "repository.GetUser"})
          /\ CountOf(last.calls, {"usecase.CreateUser", "usecase.GetUser"}) <= 1
          /\ (last.method = "POST" /\ last.cmds = <<>>) => sql = 0
          /\ (last.method = "POST" /\ last.cmds # <<>>) => sql = 1
          /\ (last.method = "GET" /\ uuid_Parse(last.input).err = Nil) => sql = 1
          /\ (last.method = "GET" /\ uuid_Parse(last.input).err # Nil) => sql = 0

\* an INSERT that failed: one statement, not repeated, answered 500
C25_Witness ==
  /\ last.method = "POST"
  /\ last.fault
  /\ last.resp.Status = StatusInternalServerError
  /\ CountOf(last.calls, {"sql"}) = 1
  /\ users # {}

\* the last exchange is the one of the last statement executed
FromStatement ==
  /\ call.fn = "statement"
  /\ last.method = call.request.method
  /\ IF last.method = "POST" THEN last.cmds # <<>> ELSE last.calls # <<>>

\* the row a POST request inserts
RowOf(q) ==
  [id |-> q.id, name |-> q.input.name, created_at |-> q.t1, updated_at |-> q.t2]

\* C26: whatever other requests are in flight, the response of a request and
\* its effect on the table are those of the request alone on the table its
\* statement saw: a GET answers 200 with the row of its id in that table and
\* 404 when there is none or the statement fails; a POST answers 201 and adds
\* its row, or 500 and adds nothing.  So the table is at every moment the
\* result of the statements executed so far, one after the other, with one
\* row for each id.
C26_SerialPerRequest ==
  /\ \A row \in users : Cardinality({o \in users : o.id = row.id}) = 1
  /\ call.fn = "statement"
       => LET q == call.request
              alone == IF q.method = "POST"
                       THEN UserHandler_CreateUser(q.input, q.id, q.t1, q.t2, call.before,
                                                   call.fault, NoResponse)
                       ELSE UserHandler_GetUser(q.input, call.before, call.fault, NoResponse)
          IN /\ users = alone.users
             /\ q.method = "POST"
                  => users = IF call.fault THEN call.before ELSE call.before \cup {RowOf(q)}
             /\ q.method = "GET" => users = call.before
  /\ FromStatement
       => LET q == call.request
              seen == {row \in call.before : q.method = "GET" /\ row.id = q.input.id}
          IN /\ last.input = q.input
             /\ (q.method = "POST" /\ ~call.fault) => last.resp.Status = StatusCreated
             /\ (q.method = "POST" /\ call.fault) => last.resp.Status = StatusInternalServerError
             /\ (q.method = "GET" /\ (call.fault \/ seen = {}))
                  => last.resp.Status = StatusNotFound
             /\ (q.method = "GET" /\ ~call.fault /\ seen # {})
                  => /\ last.resp.Status = StatusOK
                     /\ \E row \in seen :
                          last.resp.Body = [User |-> [id |-> row.id, name |-> row.name]]

\* the GET for an id was waiting when the POST that inserts that id was executed
C26_Witness ==
  /\ call.fn = "statement"
  /\ call.request.method = "POST"
  /\ ~call.fault
  /\ last.resp.Status = StatusCreated
  /\ \E o \in call.waiting :
       /\ inflight[o].method = "GET"
       /\ inflight[o].input.id = call.request.id
  /\ RowOf(call.request) \in users

\* C27: a GET request leaves the users table as it was, whether it finds the
\* row, finds none or its statement fails, and whatever else is in flight.
C27_GetLeavesTable ==
  (call.fn = "statement" /\ call.request.method = "GET") => users = call.before

\* a GET that found its row: the row is still there
C27_Witness ==
  /\ FromStatement
  /\ call.request.method = "GET"
  /\ last.resp.Status = StatusOK
  /\ \E row \in call.before : row.id = call.request.input.id
  /\ users = call.before

====
